---- MODULE Spec2Model ----
(***************************************************************************)
(* Model of the team/project/task manager: the GraphQL resolver layer      *)
(* (two implementations are present in the source: the fuller one,         *)
(* src/unnamed/part_000, and src/server/schemas/resolvers.js) over the     *)
(* four document collections, and the overview page's derived data         *)
(* (status tallies, nearest due date).                                     *)
(*                                                                         *)
(* Identifiers are positive integers, 0 stands for null/undefined.  Each   *)
(* collection is a function from the identifiers of its stored documents.  *)
(* A resolver is one action: the whole handler, every write it awaits.     *)
(***************************************************************************)
EXTENDS Integers, Sequences, FiniteSets, TLC

VARIABLES users, teams, projects, tasks,
          nextUser, nextProject, nextTask,
          issued, last,
          userProjects, userTasks, today, rendered

dbVars == <<users, teams, projects, tasks, nextUser, nextProject, nextTask, issued, last>>
pageVars == <<userProjects, userTasks, today, rendered>>
vars == <<users, teams, projects, tasks, nextUser, nextProject, nextTask,
          issued, last, userProjects, userTasks, today, rendered>>

----------------------------------------------------------------------------
(* Bounds *)
MaxUsers == 2
MaxProjects == 1
MaxTasks == 2
NumTeams == 1
MaxUserProjects == 3
MaxUserTasks == 2

(* Input domains *)
Emails == {"a@x", "b@x"}
NewPasswords == {"pwA"}
PatchPasswords == {"", "pwB"}
LoginPasswords == {"", "pwA", "pwB"}
Statuses == {"Created", "Pending", "InProgress", "Completed"}
InputStatuses == {"Pending", "Completed"}
UserIdInputs == 0..MaxUsers
TeamIdInputs == 0..(NumTeams + 1)
ProjectIdInputs == 1..MaxProjects
TaskIdInputs == 1..MaxTasks

----------------------------------------------------------------------------
(* Helpers *)
Count(s, x) == Cardinality({i \in DOMAIN s : s[i] = x})
Range(s) == {s[i] : i \in DOMAIN s}

RECURSIVE SetToSeq(_)
SetToSeq(S) ==
  IF S = {} THEN <<>>
  ELSE LET m == CHOOSE x \in S : \A y \in S : x <= y
       IN <<m>> \o SetToSeq(S \ {m})

(* A stored password value is either a plaintext string or a bcrypt hash  *)
(* of one.  bcrypt.compare succeeds only against a hash of the same        *)
(* plaintext; against a stored plaintext it fails.                         *)
Plain(pw) == [hashed |-> FALSE, text |-> pw]
bcryptHash(pw) == [hashed |-> TRUE, text |-> pw]
isCorrectPassword(stored, pw) == stored.hashed /\ stored.text = pw

(* signToken embeds the user's identity in the credential. *)
signToken(uid) == uid

AuthenticationError == "AuthenticationError"

Result(op, impl) ==
  [op |-> op, impl |-> impl, err |-> "", ctx |-> 0, a1 |-> 0, a2 |-> 0,
   st |-> "", pw |-> <<>>, id |-> 0, user |-> 0, token |-> 0, ret |-> {}]

(* No response is in flight: the server awaits a request *)
NoResponse == Result("none", "")

(* User.findOne({ email }): the first stored user with that email, or 0. *)
findUserByEmail(email) ==
  LET S == {u \in DOMAIN users : users[u].email = email}
  IN IF S = {} THEN 0 ELSE CHOOSE u \in S : \A v \in S : u <= v

(* User.create(userData): the model's pre-save hook stores the hash. *)
UserCreate(email, pw) ==
  [email |-> email, password |-> bcryptHash(pw), team |-> 0,
   projects |-> <<>>, tasks |-> <<>>]


Put(f, k, v) == [x \in DOMAIN f \cup {k} |-> IF x = k THEN v ELSE f[x]]
Remove(f, k) == [x \in DOMAIN f \ {k} |-> f[x]]

(* The users collection keeps e-mail addresses unique. *)
EmailTaken(email) == \E u \in DOMAIN users : users[u].email = email

(* Project.create(data): a stored project; `team` is the association the *)
(* part_000 resolvers write, `teams` the one resolvers.js writes.          *)
ProjectCreate == [team |-> <<>>, teams |-> <<>>, tasks |-> <<>>]

(* Model.find({ _id: { $in: ids } }): the stored documents among ids, in  *)
(* identifier order.                                                       *)
findIn(coll, ids) == SetToSeq(ids \cap DOMAIN coll)

(* Task.create(input): the Task document stores taskStatus and            *)
(* assignedUser; the input's assignedUserId is not a path of the document. *)
TaskCreate(status) == [taskStatus |-> status, assignedUser |-> 0]

(* $set of a task input on a stored task: the paths of the document that  *)
(* the input carries are replaced; assignedUserId is not one of them.      *)
TaskSet(task, status, assignedUserId) ==
  [task EXCEPT !.taskStatus = IF status # "" THEN status ELSE @]

----------------------------------------------------------------------------
(* client/src/pages/MyOverview.jsx *)

(* A Date is its time value in minutes; a formatted due date "Mon D YYYY" *)
(* is the triple of its parts.                                             *)
MinutesPerDay == 24 * 60
months ==
  [Jan |-> 0, Feb |-> 1, Mar |-> 2, Apr |-> 3, May |-> 4, Jun |-> 5,
   Jul |-> 6, Aug |-> 7, Sep |-> 8, Oct |-> 9, Nov |-> 10, Dec |-> 11]

IsLeapYear(y) == (y % 4 = 0 /\ y % 100 # 0) \/ y % 400 = 0
DaysBeforeYear(y) == 365 * y + ((y - 1) \div 4) - ((y - 1) \div 100) + ((y - 1) \div 400)
DaysBeforeMonth(y, m) ==
  <<0, 31, 59, 90, 120, 151, 181, 212, 243, 273, 304, 334>>[m + 1]
    + (IF m >= 2 /\ IsLeapYear(y) THEN 1 ELSE 0)

(* new Date(year, monthNumber, day): local midnight of that day; a day    *)
(* past the month's end rolls into the next month.                         *)
NewDate(year, monthNumber, day) ==
  (DaysBeforeYear(year) + DaysBeforeMonth(year, monthNumber) + day) * MinutesPerDay

parseFormattedDate(formattedDate) ==
  NewDate(formattedDate[3], months[formattedDate[1]], formattedDate[2])

(* Date.prototype.toDateString(): names the calendar day of the value *)
toDateString(date) == date \div MinutesPerDay

(* new Date() at the render: noon of 4 Nov 2026 or of 1 Feb 2027 *)
Clocks == {NewDate(2026, 10, 4) + 12 * 60, NewDate(2027, 1, 1) + 12 * 60}

(* The records the lists are drawn from.  The tallies read the status     *)
(* alone and the due-date selection the date alone: every status and       *)
(* every date occurs, so every sequence of statuses and every sequence of  *)
(* dates does.                                                             *)
StatusAndDue ==
  {<<"Created", <<"Oct", 1, 2026>>>>,
   <<"Pending", <<"Nov", 4, 2026>>>>,
   <<"Pending", <<"Nov", 11, 2026>>>>,
   <<"InProgress", <<"Jan", 5, 2027>>>>,
   <<"Completed", <<"Nov", 11, 2026>>>>}

ProjectRecords == {[projectStatus |-> x[1], dateDue |-> x[2]] : x \in StatusAndDue}
TaskRecords == {[taskStatus |-> x[1], dateDue |-> x[2]] : x \in StatusAndDue}

SeqsUpTo(S, n) == UNION {[1..k -> S] : k \in 0..n}

(* The reducer of projectStatusCounts / taskStatusCounts, applied to one  *)
(* status: a key with a truthy count is incremented, any other is set to 1 *)
countStatus_noIncrement(acc, status) == Put(acc, status, 1)

countStatus(acc, status) ==
  IF status \in DOMAIN acc /\ acc[status] # 0
  THEN [acc EXCEPT ![status] = @ + 1]
  ELSE Put(acc, status, 1)

RECURSIVE reduceStatusCounts(_, _)
reduceStatusCounts(statuses, acc) ==
  IF statuses = <<>> THEN acc
  ELSE reduceStatusCounts(Tail(statuses), countStatus(acc, Head(statuses)))

projectStatusCounts(list) ==
  reduceStatusCounts([i \in DOMAIN list |-> list[i].projectStatus], <<>>)
taskStatusCounts(list) ==
  reduceStatusCounts([i \in DOMAIN list |-> list[i].taskStatus], <<>>)

RECURSIVE SumCounts(_, _)
SumCounts(counts, keys) ==
  IF keys = {} THEN 0
  ELSE LET k == CHOOSE x \in keys : TRUE
       IN counts[k] + SumCounts(counts, keys \ {k})

incompleteTasksCount_noFilter(counts) == SumCounts(counts, DOMAIN counts)

incompleteTasksCount(counts) ==
  SumCounts(counts, {status \in DOMAIN counts : status # "Completed"})
completedTasksCount(counts) ==
  IF "Completed" \in DOMAIN counts /\ counts["Completed"] # 0 THEN counts["Completed"] ELSE 0

(* some(): is a record of the list due on the calendar day of `now` *)
hasDueDateToday(dues, now) ==
  \E i \in DOMAIN dues : toDateString(parseFormattedDate(dues[i])) = toDateString(now)

(* One step of the closestDueDateProject / closestDueDateTask reducer.    *)
(* Records are named by their position in the list, 0 is null.            *)
closestStep_lastOnTie(dues, now, closest, current) ==
  LET currentDueDate == parseFormattedDate(dues[current])
  IN IF toDateString(currentDueDate) = toDateString(now) THEN current
     ELSE IF closest = 0 THEN current
     ELSE LET closestDueDate == parseFormattedDate(dues[closest])
              isCurrentClosest ==
                /\ currentDueDate > now
                /\ (currentDueDate <= closestDueDate \/ closestDueDate <= now)
          IN IF isCurrentClosest THEN current ELSE closest

closestStep(dues, now, closest, current) ==
  LET currentDueDate == parseFormattedDate(dues[current])
  IN IF toDateString(currentDueDate) = toDateString(now) THEN current
     ELSE IF closest = 0 THEN current
     ELSE LET closestDueDate == parseFormattedDate(dues[closest])
              isCurrentClosest ==
                /\ currentDueDate > now
                /\ (currentDueDate < closestDueDate \/ closestDueDate <= now)
          IN IF isCurrentClosest THEN current ELSE closest

RECURSIVE closestReduce(_, _, _, _)
closestReduce(dues, now, closest, i) ==
  IF i > Len(dues) THEN closest
  ELSE closestReduce(dues, now, closestStep(dues, now, closest, i), i + 1)

closestDueDate(dues, now) == closestReduce(dues, now, 0, 1)

(* find(): the first record due today; 0 when there is none *)
findDueToday_last(dues, now) ==
  LET S == {i \in DOMAIN dues : toDateString(parseFormattedDate(dues[i])) = toDateString(now)}
  IN IF S = {} THEN 0 ELSE CHOOSE i \in S : \A j \in S : i >= j

findDueToday(dues, now) ==
  LET S == {i \in DOMAIN dues : toDateString(parseFormattedDate(dues[i])) = toDateString(now)}
  IN IF S = {} THEN 0 ELSE CHOOSE i \in S : \A j \in S : i <= j

(* projectToReturn / taskToReturn() *)
toReturn(dues, now) ==
  IF hasDueDateToday(dues, now) THEN findDueToday(dues, now) ELSE closestDueDate(dues, now)

(* The text of the card: "TODAY", the date string, or the fallback *)
dueText(dues, now, selected) ==
  IF selected # 0 /\ toDateString(parseFormattedDate(dues[selected])) = toDateString(now)
  THEN [text |-> "TODAY", day |-> toDateString(now)]
  ELSE IF selected # 0
  THEN [text |-> "date", day |-> toDateString(parseFormattedDate(dues[selected]))]
  ELSE [text |-> "No upcoming due date", day |-> 0]

Dues(list) == [i \in DOMAIN list |-> list[i].dateDue]

NotRendered ==
  [done |-> FALSE, projectStatusCounts |-> <<>>, totalProjectsCount |-> 0,
   taskStatusCounts |-> <<>>, totalTasksCount |-> 0,
   incompleteTasksCount |-> 0, completedTasksCount |-> 0,
   projectToReturn |-> 0, taskToReturnResult |-> 0,
   projectDue |-> [text |-> "", day |-> 0], taskDue |-> [text |-> "", day |-> 0]]

----------------------------------------------------------------------------
InitDb ==
  /\ users = <<>>
  /\ teams = [t \in 1..NumTeams |-> [members |-> <<>>, projects |-> <<>>]]
  /\ projects = <<>>
  /\ tasks = <<>>
  /\ nextUser = 1
  /\ nextProject = 1
  /\ nextTask = 1
  /\ issued = {}
  /\ last = NoResponse

InitPageIdle ==
  /\ userProjects = <<>>
  /\ userTasks = <<>>
  /\ today = 0
  /\ rendered = NotRendered

Init == InitDb /\ InitPageIdle

(* The page is given the session user's expanded lists and the clock *)
InitPage ==
  /\ userProjects \in SeqsUpTo(ProjectRecords, MaxUserProjects)
  /\ userTasks \in SeqsUpTo(TaskRecords, MaxUserTasks)
  /\ today \in Clocks
  /\ rendered = NotRendered

InitOverview == InitDb /\ InitPage

----------------------------------------------------------------------------
(* Query.me, part_000: User.findOne({ _id: context.user._id }), or the    *)
(* sentinel when the context has no user.                                  *)
meResult_firstUser(ctx) ==
  IF ctx # 0
  THEN [Result("me", "part_000") EXCEPT !.ctx = ctx,
          !.user = IF DOMAIN users = {} THEN 0
                   ELSE CHOOSE u \in DOMAIN users : \A v \in DOMAIN users : u <= v]
  ELSE [Result("me", "part_000") EXCEPT !.err = AuthenticationError]

meResult(ctx) ==
  IF ctx # 0
  THEN [Result("me", "part_000") EXCEPT !.ctx = ctx,
          !.user = IF ctx \in DOMAIN users THEN ctx ELSE 0]
  ELSE [Result("me", "part_000") EXCEPT !.err = AuthenticationError]

Query_me ==
  /\ last = NoResponse
  /\ \E ctx \in issued \cup {0} :
    /\ last' = meResult(ctx)
    /\ UNCHANGED <<users, teams, projects, tasks, nextUser, nextProject, nextTask, issued>>
    /\ UNCHANGED pageVars

(* Query.tasks, part_000: the check and the find both sit inside the try; *)
(* whatever is thrown there is replaced by a new generic Error.            *)
Query_tasks ==
  /\ last = NoResponse
  /\ \E ctx \in issued \cup {0} :
    /\ last' = IF ctx = 0
               THEN [Result("tasks", "part_000") EXCEPT !.err = "Failed to fetch tasks"]
               ELSE [Result("tasks", "part_000") EXCEPT !.ctx = ctx,
                       !.ret = {t \in DOMAIN tasks : tasks[t].assignedUser = ctx}]
    /\ UNCHANGED <<users, teams, projects, tasks, nextUser, nextProject, nextTask, issued>>
    /\ UNCHANGED pageVars

(* Mutation.login: both files look the user up by e-mail, then compare   *)
(* the password with the stored hash.                                      *)
LoginResult_noCompare(impl, email, pw) ==
  LET u == findUserByEmail(email)
      r == [Result("login", impl) EXCEPT !.pw = <<pw>>]
  IN IF u = 0 THEN [r EXCEPT !.err = AuthenticationError]
     ELSE [r EXCEPT !.a1 = u, !.user = u, !.token = signToken(u)]

LoginResult(impl, email, pw) ==
  LET u == findUserByEmail(email)
      r == [Result("login", impl) EXCEPT !.pw = <<pw>>]
  IN IF u = 0 THEN [r EXCEPT !.err = AuthenticationError]
     ELSE IF ~isCorrectPassword(users[u].password, pw)
          THEN [r EXCEPT !.err = AuthenticationError, !.a1 = u]
          ELSE [r EXCEPT !.a1 = u, !.user = u, !.token = signToken(u)]

(* Mutation.login, part_000 and resolvers.js *)
Mutation_login ==
  /\ last = NoResponse
  /\ \E email \in Emails, pw \in LoginPasswords :
    /\ last' = [LoginResult("part_000", email, pw) EXCEPT !.st = email]
    /\ issued' = IF last'.token # 0 THEN issued \cup {last'.token} ELSE issued
    /\ UNCHANGED <<users, teams, projects, tasks, nextUser, nextProject, nextTask>>
    /\ UNCHANGED pageVars

(* Mutation.addUser, part_000 *)
addUser_inheritsProjects(email, pw, teamId) ==
  /\ last = NoResponse
  /\ LET r == [Result("addUser", "part_000") EXCEPT !.a2 = teamId, !.st = email, !.pw = <<pw>>]
        uid == nextUser
        user == UserCreate(email, pw)
    IN
    /\ nextUser <= MaxUsers
    /\ IF EmailTaken(email)
       THEN /\ last' = [r EXCEPT !.err = "Failed to add user"]
            /\ UNCHANGED <<users, teams, nextUser, issued>>
       ELSE /\ nextUser' = nextUser + 1
            /\ IF teamId = 0
               THEN /\ users' = Put(users, uid, user)
                    /\ UNCHANGED teams
                    /\ issued' = issued \cup {signToken(uid)}
                    /\ last' = [r EXCEPT !.id = uid, !.user = uid, !.token = signToken(uid)]
               ELSE IF teamId \notin DOMAIN teams
               THEN /\ users' = Put(users, uid, user)
                    /\ UNCHANGED <<teams, issued>>
                    /\ last' = [r EXCEPT !.id = uid, !.err = "Failed to add user"]
               ELSE /\ users' = Put(users, uid, [user EXCEPT !.team = teamId,
                                                            !.projects = teams[teamId].projects])
                    /\ teams' = [teams EXCEPT ![teamId].members = Append(@, uid)]
                    /\ issued' = issued \cup {signToken(uid)}
                    /\ last' = [r EXCEPT !.id = uid, !.user = uid, !.token = signToken(uid)]
    /\ UNCHANGED <<projects, tasks, nextProject, nextTask>>
    /\ UNCHANGED pageVars

addUser(email, pw, teamId) ==
  /\ last = NoResponse
  /\ LET r == [Result("addUser", "part_000") EXCEPT !.a2 = teamId, !.st = email, !.pw = <<pw>>]
        uid == nextUser
        user == UserCreate(email, pw)
    IN
    /\ nextUser <= MaxUsers
    /\ IF EmailTaken(email)
       THEN /\ last' = [r EXCEPT !.err = "Failed to add user"]
            /\ UNCHANGED <<users, teams, nextUser, issued>>
       ELSE /\ nextUser' = nextUser + 1
            /\ IF teamId = 0
               THEN /\ users' = Put(users, uid, user)
                    /\ UNCHANGED teams
                    /\ issued' = issued \cup {signToken(uid)}
                    /\ last' = [r EXCEPT !.id = uid, !.user = uid, !.token = signToken(uid)]
               ELSE IF teamId \notin DOMAIN teams
               THEN /\ users' = Put(users, uid, user)
                    /\ UNCHANGED <<teams, issued>>
                    /\ last' = [r EXCEPT !.id = uid, !.err = "Failed to add user"]
               ELSE /\ users' = Put(users, uid, [user EXCEPT !.team = teamId])
                    /\ teams' = [teams EXCEPT ![teamId].members = Append(@, uid)]
                    /\ issued' = issued \cup {signToken(uid)}
                    /\ last' = [r EXCEPT !.id = uid, !.user = uid, !.token = signToken(uid)]
    /\ UNCHANGED <<projects, tasks, nextProject, nextTask>>
    /\ UNCHANGED pageVars

Mutation_addUser ==
  \E email \in Emails, pw \in NewPasswords, teamId \in TeamIdInputs :
    addUser(email, pw, teamId)

(* Mutation.updateUser, part_000: the password is hashed only when it is  *)
(* truthy; findOneAndUpdate runs no save hook.                             *)
Mutation_updateUser ==
  /\ last = NoResponse
  /\ \E userId \in 1..MaxUsers, pwIn \in {<<>>} \cup {<<p>> : p \in PatchPasswords} :
    LET r == [Result("updateUser", "part_000") EXCEPT !.a1 = userId, !.pw = pwIn]
        patched == IF pwIn[1] # "" THEN bcryptHash(pwIn[1]) ELSE Plain(pwIn[1])
    IN
    /\ IF userId \in DOMAIN users
       THEN /\ users' = IF pwIn = <<>> THEN users
                        ELSE [users EXCEPT ![userId].password = patched]
            /\ last' = [r EXCEPT !.user = userId]
       ELSE /\ UNCHANGED users
            /\ last' = r
    /\ UNCHANGED <<teams, projects, tasks, nextUser, nextProject, nextTask, issued>>
    /\ UNCHANGED pageVars

(* Mutation.removeUser *)
Mutation_removeUser ==
  /\ last = NoResponse
  /\ \E userId \in 1..MaxUsers :
    /\ userId \in DOMAIN users
    /\ users' = Remove(users, userId)
    /\ last' = [Result("removeUser", "part_000") EXCEPT !.a1 = userId, !.user = userId]
    /\ UNCHANGED <<teams, projects, tasks, nextUser, nextProject, nextTask, issued>>
    /\ UNCHANGED pageVars

(* Mutation.addProject, part_000 *)
addProject_lookupFirst(teamId) ==
  /\ last = NoResponse
  /\ LET r == [Result("addProject", "part_000") EXCEPT !.a2 = teamId, !.id = nextProject]
        pid == nextProject
        project == [ProjectCreate EXCEPT !.team = <<teamId>>]
    IN
    /\ nextProject <= MaxProjects
    /\ nextProject' = nextProject + 1
    /\ IF teamId = 0
       THEN /\ projects' = Put(projects, pid, project)
            /\ UNCHANGED <<teams, users>>
            /\ last' = r
       ELSE IF teamId \notin DOMAIN teams
       THEN /\ UNCHANGED <<projects, teams, users>>
            /\ last' = [r EXCEPT !.err = "Failed to create project: Team not found"]
       ELSE /\ projects' = Put(projects, pid, project)
            /\ teams' = [teams EXCEPT ![teamId].projects = Append(@, pid)]
            /\ users' = [u \in DOMAIN users |->
                           IF u \in Range(teams[teamId].members)
                           THEN [users[u] EXCEPT !.projects = Append(@, pid)]
                           ELSE users[u]]
            /\ last' = r
    /\ UNCHANGED <<tasks, nextUser, nextTask, issued>>
    /\ UNCHANGED pageVars

addProject(teamId) ==
  /\ last = NoResponse
  /\ LET r == [Result("addProject", "part_000") EXCEPT !.a2 = teamId, !.id = nextProject]
        pid == nextProject
        project == [ProjectCreate EXCEPT !.team = <<teamId>>]
    IN
    /\ nextProject <= MaxProjects
    /\ nextProject' = nextProject + 1
    /\ projects' = Put(projects, pid, project)
    /\ IF teamId = 0
       THEN /\ UNCHANGED <<teams, users>>
            /\ last' = r
       ELSE IF teamId \notin DOMAIN teams
       THEN /\ UNCHANGED <<teams, users>>
            /\ last' = [r EXCEPT !.err = "Failed to create project: Team not found"]
       ELSE /\ teams' = [teams EXCEPT ![teamId].projects = Append(@, pid)]
            /\ users' = [u \in DOMAIN users |->
                           IF u \in Range(teams[teamId].members)
                           THEN [users[u] EXCEPT !.projects = Append(@, pid)]
                           ELSE users[u]]
            /\ last' = r
    /\ UNCHANGED <<tasks, nextUser, nextTask, issued>>
    /\ UNCHANGED pageVars

Mutation_addProject == \E teamId \in TeamIdInputs : addProject(teamId)

(* Mutation.updateProject, part_000 *)
Mutation_updateProject_relinks ==
  /\ last = NoResponse
  /\ \E projectId \in ProjectIdInputs, teamId \in TeamIdInputs :
    LET r == [Result("updateProject", "part_000") EXCEPT !.a1 = projectId, !.a2 = teamId]
    IN
    /\ IF projectId \in DOMAIN projects
       THEN /\ projects' = [projects EXCEPT
                 ![projectId].team = IF teamId # 0 THEN <<teamId>> ELSE @]
            /\ teams' = [t \in DOMAIN teams |->
                           IF t = teamId
                           THEN [teams[t] EXCEPT !.projects = Append(@, projectId)]
                           ELSE teams[t]]
            /\ last' = [r EXCEPT !.id = projectId]
       ELSE /\ UNCHANGED <<projects, teams>>
            /\ last' = r
    /\ UNCHANGED <<users, tasks, nextUser, nextProject, nextTask, issued>>
    /\ UNCHANGED pageVars

Mutation_updateProject ==
  /\ last = NoResponse
  /\ \E projectId \in ProjectIdInputs, teamId \in TeamIdInputs :
    LET r == [Result("updateProject", "part_000") EXCEPT !.a1 = projectId, !.a2 = teamId]
    IN
    /\ IF projectId \in DOMAIN projects
       THEN /\ projects' = [projects EXCEPT
                 ![projectId].team = IF teamId # 0 THEN <<teamId>> ELSE @]
            /\ last' = [r EXCEPT !.id = projectId]
       ELSE /\ UNCHANGED projects
            /\ last' = r
    /\ UNCHANGED <<users, teams, tasks, nextUser, nextProject, nextTask, issued>>
    /\ UNCHANGED pageVars

(* Mutation.removeProject *)
Mutation_removeProject ==
  /\ last = NoResponse
  /\ \E projectId \in ProjectIdInputs :
    /\ projectId \in DOMAIN projects
    /\ projects' = Remove(projects, projectId)
    /\ last' = [Result("removeProject", "part_000") EXCEPT !.a1 = projectId, !.id = projectId]
    /\ UNCHANGED <<users, teams, tasks, nextUser, nextProject, nextTask, issued>>
    /\ UNCHANGED pageVars

(* Mutation.addTask, part_000: each write is awaited before the next      *)
(* lookup; a failed lookup throws into the catch, which rethrows and        *)
(* undoes nothing.                                                         *)
addTask_rollback(projectId, assignedUserId, status) ==
  /\ last = NoResponse
  /\ LET tid == nextTask
        r == [Result("addTask", "part_000") EXCEPT !.a1 = projectId, !.a2 = assignedUserId,
                !.st = status, !.id = tid]
        task == TaskCreate(status)
    IN
    /\ nextTask <= MaxTasks
    /\ nextTask' = nextTask + 1
    /\ IF projectId \notin DOMAIN projects
       THEN /\ UNCHANGED <<tasks, projects, users>>
            /\ last' = [r EXCEPT !.err = "Failed to create task: Project not found"]
       ELSE IF assignedUserId \notin DOMAIN users
       THEN /\ UNCHANGED <<tasks, projects, users>>
            /\ last' = [r EXCEPT !.err = "Failed to create task: Assigned user not found"]
       ELSE /\ tasks' = Put(tasks, tid, [task EXCEPT !.assignedUser = assignedUserId])
            /\ projects' = [projects EXCEPT ![projectId].tasks = Append(@, tid)]
            /\ users' = [users EXCEPT ![assignedUserId].tasks = Append(@, tid)]
            /\ last' = [r EXCEPT !.user = assignedUserId]
    /\ UNCHANGED <<teams, nextUser, nextProject, issued>>
    /\ UNCHANGED pageVars

addTask_noUserPush(projectId, assignedUserId, status) ==
  /\ last = NoResponse
  /\ LET tid == nextTask
        r == [Result("addTask", "part_000") EXCEPT !.a1 = projectId, !.a2 = assignedUserId,
                !.st = status, !.id = tid]
        task == TaskCreate(status)
    IN
    /\ nextTask <= MaxTasks
    /\ nextTask' = nextTask + 1
    /\ IF projectId \notin DOMAIN projects
       THEN /\ tasks' = Put(tasks, tid, task)
            /\ UNCHANGED <<projects, users>>
            /\ last' = [r EXCEPT !.err = "Failed to create task: Project not found"]
       ELSE IF assignedUserId \notin DOMAIN users
       THEN /\ tasks' = Put(tasks, tid, task)
            /\ projects' = [projects EXCEPT ![projectId].tasks = Append(@, tid)]
            /\ UNCHANGED users
            /\ last' = [r EXCEPT !.err = "Failed to create task: Assigned user not found"]
       ELSE /\ tasks' = Put(tasks, tid, [task EXCEPT !.assignedUser = assignedUserId])
            /\ projects' = [projects EXCEPT ![projectId].tasks = Append(@, tid)]
            /\ UNCHANGED users
            /\ last' = [r EXCEPT !.user = assignedUserId]
    /\ UNCHANGED <<teams, nextUser, nextProject, issued>>
    /\ UNCHANGED pageVars

addTask(projectId, assignedUserId, status) ==
  /\ last = NoResponse
  /\ LET tid == nextTask
        r == [Result("addTask", "part_000") EXCEPT !.a1 = projectId, !.a2 = assignedUserId,
                !.st = status, !.id = tid]
        task == TaskCreate(status)
    IN
    /\ nextTask <= MaxTasks
    /\ nextTask' = nextTask + 1
    /\ IF projectId \notin DOMAIN projects
       THEN /\ tasks' = Put(tasks, tid, task)
            /\ UNCHANGED <<projects, users>>
            /\ last' = [r EXCEPT !.err = "Failed to create task: Project not found"]
       ELSE IF assignedUserId \notin DOMAIN users
       THEN /\ tasks' = Put(tasks, tid, task)
            /\ projects' = [projects EXCEPT ![projectId].tasks = Append(@, tid)]
            /\ UNCHANGED users
            /\ last' = [r EXCEPT !.err = "Failed to create task: Assigned user not found"]
       ELSE /\ tasks' = Put(tasks, tid, [task EXCEPT !.assignedUser = assignedUserId])
            /\ projects' = [projects EXCEPT ![projectId].tasks = Append(@, tid)]
            /\ users' = [users EXCEPT ![assignedUserId].tasks = Append(@, tid)]
            /\ last' = [r EXCEPT !.user = assignedUserId]
    /\ UNCHANGED <<teams, nextUser, nextProject, issued>>
    /\ UNCHANGED pageVars

Mutation_addTask ==
  \E projectId \in ProjectIdInputs, assignedUserId \in UserIdInputs, status \in InputStatuses :
    addTask(projectId, assignedUserId, status)

(* Mutation.updateTask, part_000: $set { ...input, assignedUser: the      *)
(* stored one }.                                                           *)
updateTaskSet_inputWins(existingTask, status, assignedUserId) ==
  [TaskSet(existingTask, status, assignedUserId) EXCEPT
     !.assignedUser = IF assignedUserId # 0 THEN assignedUserId ELSE @]

updateTaskSet(existingTask, status, assignedUserId) ==
  [TaskSet(existingTask, status, assignedUserId) EXCEPT
     !.assignedUser = existingTask.assignedUser]

Mutation_updateTask ==
  /\ last = NoResponse
  /\ \E taskId \in TaskIdInputs, assignedUserId \in UserIdInputs, status \in InputStatuses \cup {""} :
    LET r == [Result("updateTask", "part_000") EXCEPT !.a1 = taskId, !.a2 = assignedUserId, !.st = status]
    IN
    /\ IF taskId \notin DOMAIN tasks
       THEN /\ UNCHANGED tasks
            /\ last' = [r EXCEPT !.err = "Error updating task"]
       ELSE /\ tasks' = [tasks EXCEPT ![taskId] = updateTaskSet(@, status, assignedUserId)]
            /\ last' = [r EXCEPT !.id = taskId, !.user = tasks'[taskId].assignedUser]
    /\ UNCHANGED <<users, teams, projects, nextUser, nextProject, nextTask, issued>>
    /\ UNCHANGED pageVars

(* Mutation.removeTask *)
Mutation_removeTask_cascade ==
  /\ last = NoResponse
  /\ \E taskId \in TaskIdInputs :
    /\ taskId \in DOMAIN tasks
    /\ tasks' = Remove(tasks, taskId)
    /\ users' = [u \in DOMAIN users |->
                   [users[u] EXCEPT !.tasks = SelectSeq(@, LAMBDA k : k # taskId)]]
    /\ projects' = [p \in DOMAIN projects |->
                      [projects[p] EXCEPT !.tasks = SelectSeq(@, LAMBDA k : k # taskId)]]
    /\ last' = [Result("removeTask", "part_000") EXCEPT !.a1 = taskId, !.id = taskId]
    /\ UNCHANGED <<teams, nextUser, nextProject, nextTask, issued>>
    /\ UNCHANGED pageVars

Mutation_removeTask ==
  /\ last = NoResponse
  /\ \E taskId \in TaskIdInputs :
    /\ taskId \in DOMAIN tasks
    /\ tasks' = Remove(tasks, taskId)
    /\ last' = [Result("removeTask", "part_000") EXCEPT !.a1 = taskId, !.id = taskId]
    /\ UNCHANGED <<users, teams, projects, nextUser, nextProject, nextTask, issued>>
    /\ UNCHANGED pageVars

----------------------------------------------------------------------------
(* src/server/schemas/resolvers.js *)

(* Query.tasks, resolvers.js: no session check, every task is returned *)
Query_tasks_rs ==
  /\ last = NoResponse
  /\ \E ctx \in issued \cup {0} :
    /\ last' = [Result("tasks", "resolvers") EXCEPT !.ctx = ctx, !.ret = DOMAIN tasks]
    /\ UNCHANGED <<users, teams, projects, tasks, nextUser, nextProject, nextTask, issued>>
    /\ UNCHANGED pageVars

Mutation_login_rs ==
  /\ last = NoResponse
  /\ \E email \in Emails, pw \in LoginPasswords :
    /\ last' = [LoginResult("resolvers", email, pw) EXCEPT !.st = email]
    /\ issued' = IF last'.token # 0 THEN issued \cup {last'.token} ELSE issued
    /\ UNCHANGED <<users, teams, projects, tasks, nextUser, nextProject, nextTask>>
    /\ UNCHANGED pageVars

(* Mutation.addUser, resolvers.js: only the user's side of the link is    *)
(* written, and the payload is { user } alone.                             *)
addUser_rs(email, pw, teamId) ==
  /\ last = NoResponse
  /\ LET r == [Result("addUser", "resolvers") EXCEPT !.a2 = teamId, !.st = email, !.pw = <<pw>>]
        uid == nextUser
        user == UserCreate(email, pw)
    IN
    /\ nextUser <= MaxUsers
    /\ IF EmailTaken(email)
       THEN /\ last' = [r EXCEPT !.err = "E11000 duplicate key"]
            /\ UNCHANGED <<users, nextUser>>
       ELSE /\ nextUser' = nextUser + 1
            /\ IF teamId = 0
               THEN /\ users' = Put(users, uid, user)
                    /\ last' = [r EXCEPT !.id = uid, !.user = uid]
               ELSE IF teamId \notin DOMAIN teams
               THEN /\ users' = Put(users, uid, user)
                    /\ last' = [r EXCEPT !.id = uid, !.err = "Team not found"]
               ELSE /\ users' = Put(users, uid, [user EXCEPT !.team = teamId])
                    /\ last' = [r EXCEPT !.id = uid, !.user = uid]
    /\ UNCHANGED <<teams, issued, projects, tasks, nextProject, nextTask>>
    /\ UNCHANGED pageVars

Mutation_addUser_rs ==
  \E email \in Emails, pw \in NewPasswords, teamId \in TeamIdInputs :
    addUser_rs(email, pw, teamId)

(* Mutation.updateUser, resolvers.js: $set of the input as it came *)
Mutation_updateUser_rs ==
  /\ last = NoResponse
  /\ \E userId \in 1..MaxUsers, pwIn \in {<<>>} \cup {<<p>> : p \in PatchPasswords} :
    LET r == [Result("updateUser", "resolvers") EXCEPT !.a1 = userId, !.pw = pwIn]
    IN
    /\ IF userId \in DOMAIN users
       THEN /\ users' = IF pwIn = <<>> THEN users
                        ELSE [users EXCEPT ![userId].password = Plain(pwIn[1])]
            /\ last' = [r EXCEPT !.user = userId]
       ELSE /\ UNCHANGED users
            /\ last' = r
    /\ UNCHANGED <<teams, projects, tasks, nextUser, nextProject, nextTask, issued>>
    /\ UNCHANGED pageVars

(* Mutation.addProject, resolvers.js *)
addProject_rs(teamIds, taskIds) ==
  /\ last = NoResponse
  /\ LET pid == nextProject
        r == [Result("addProject", "resolvers") EXCEPT !.ret = teamIds, !.id = pid]
    IN
    /\ nextProject <= MaxProjects
    /\ nextProject' = nextProject + 1
    /\ projects' = Put(projects, pid,
                       [ProjectCreate EXCEPT !.teams = findIn(teams, teamIds),
                                             !.tasks = findIn(tasks, taskIds)])
    /\ last' = r
    /\ UNCHANGED <<users, teams, tasks, nextUser, nextTask, issued>>
    /\ UNCHANGED pageVars

Mutation_addProject_rs ==
  \E teamIds \in SUBSET (TeamIdInputs \ {0}), taskIds \in SUBSET TaskIdInputs :
    addProject_rs(teamIds, taskIds)

(* Mutation.updateProject, resolvers.js *)
updateProject_rs(projectId, teamIds, taskIds) ==
  /\ last = NoResponse
  /\ LET r == [Result("updateProject", "resolvers") EXCEPT !.a1 = projectId, !.ret = teamIds]
    IN
    /\ IF projectId \notin DOMAIN projects
       THEN /\ UNCHANGED projects
            /\ last' = [r EXCEPT !.err = "Failed to update project"]
       ELSE /\ projects' = IF teamIds # {}
                           THEN [projects EXCEPT ![projectId].teams = findIn(teams, teamIds),
                                                 ![projectId].tasks = findIn(tasks, taskIds)]
                           ELSE projects
            /\ last' = [r EXCEPT !.id = projectId]
    /\ UNCHANGED <<users, teams, tasks, nextUser, nextProject, nextTask, issued>>
    /\ UNCHANGED pageVars

Mutation_updateProject_rs ==
  \E projectId \in ProjectIdInputs, teamIds \in SUBSET (TeamIdInputs \ {0}),
     taskIds \in SUBSET TaskIdInputs :
    updateProject_rs(projectId, teamIds, taskIds)

(* Mutation.addTask, resolvers.js: the project's list is written; the     *)
(* user is only read for the payload.                                      *)
Mutation_addTask_rs ==
  /\ last = NoResponse
  /\ \E projectId \in ProjectIdInputs, assignedUserId \in UserIdInputs, status \in InputStatuses :
    LET tid == nextTask
        r == [Result("addTask", "resolvers") EXCEPT !.a1 = projectId, !.a2 = assignedUserId,
                !.st = status, !.id = tid]
    IN
    /\ nextTask <= MaxTasks
    /\ nextTask' = nextTask + 1
    /\ tasks' = Put(tasks, tid, TaskCreate(status))
    /\ IF projectId \notin DOMAIN projects
       THEN /\ UNCHANGED projects
            /\ last' = [r EXCEPT !.err = "TypeError"]
       ELSE /\ projects' = [projects EXCEPT ![projectId].tasks = Append(@, tid)]
            /\ last' = [r EXCEPT !.user = IF assignedUserId \in DOMAIN users
                                          THEN assignedUserId ELSE 0]
    /\ UNCHANGED <<users, teams, nextUser, nextProject, issued>>
    /\ UNCHANGED pageVars

(* Mutation.updateTask, resolvers.js *)
Mutation_updateTask_rs ==
  /\ last = NoResponse
  /\ \E taskId \in TaskIdInputs, assignedUserId \in UserIdInputs, status \in InputStatuses \cup {""} :
    LET r == [Result("updateTask", "resolvers") EXCEPT !.a1 = taskId, !.a2 = assignedUserId, !.st = status]
    IN
    /\ IF taskId \notin DOMAIN tasks
       THEN /\ UNCHANGED tasks
            /\ last' = r
       ELSE /\ tasks' = [tasks EXCEPT ![taskId] = TaskSet(@, status, assignedUserId)]
            /\ last' = [r EXCEPT !.id = taskId, !.user = tasks'[taskId].assignedUser]
    /\ UNCHANGED <<users, teams, projects, nextUser, nextProject, nextTask, issued>>
    /\ UNCHANGED pageVars

----------------------------------------------------------------------------
(* MyOverview: one render of the component over the fetched lists *)
MyOverview ==
  /\ ~rendered.done
  /\ rendered' =
       LET pc == projectStatusCounts(userProjects)
           tc == taskStatusCounts(userTasks)
           p == toReturn(Dues(userProjects), today)
           t == toReturn(Dues(userTasks), today)
       IN [done |-> TRUE,
           projectStatusCounts |-> pc, totalProjectsCount |-> Len(userProjects),
           taskStatusCounts |-> tc, totalTasksCount |-> Len(userTasks),
           incompleteTasksCount |-> incompleteTasksCount(tc),
           completedTasksCount |-> completedTasksCount(tc),
           projectToReturn |-> p, taskToReturnResult |-> t,
           projectDue |-> dueText(Dues(userProjects), today, p),
           taskDue |-> dueText(Dues(userTasks), today, t)]
  /\ UNCHANGED <<userProjects, userTasks, today>>
  /\ UNCHANGED dbVars

NextOverview == MyOverview

SpecOverview == InitOverview /\ [][NextOverview]_vars

----------------------------------------------------------------------------
(* The resolver's return value (or the error it threw) leaves the server; *)
(* the next request is taken after it.  No resolver reads an earlier       *)
(* response.                                                               *)
Respond ==
  /\ last # NoResponse
  /\ last' = NoResponse
  /\ UNCHANGED <<users, teams, projects, tasks, nextUser, nextProject, nextTask, issued>>
  /\ UNCHANGED pageVars

----------------------------------------------------------------------------
(* The e-mail address the n-th registration is made with, where the       *)
(* address plays no part.                                                  *)
EmailFor(n) == IF n = 1 THEN "a@x" ELSE IF n = 2 THEN "b@x" ELSE "c@x"

(* Registrations without a team, projects without a team *)
Register == \E pw \in NewPasswords : addUser(EmailFor(nextUser), pw, 0)
NewProject == addProject(0)

(* Registrations into a team (or a team that does not exist) *)
Join == \E pw \in NewPasswords, teamId \in TeamIdInputs :
          addUser(EmailFor(nextUser), pw, teamId)
Join_rs == \E pw \in NewPasswords, teamId \in TeamIdInputs \ {0} :
          addUser_rs(EmailFor(nextUser), pw, teamId)

(* Projects of teams, where no task is stored *)
TeamProject_rs == \E teamIds \in SUBSET (TeamIdInputs \ {0}) : addProject_rs(teamIds, {})
MoveProject_rs ==
  \E projectId \in ProjectIdInputs, teamIds \in SUBSET (TeamIdInputs \ {0}) :
    updateProject_rs(projectId, teamIds, {})

(* Tasks: their projects, their assignees, the sessions that list them *)
Next ==
  \/ Register
  \/ NewProject
  \/ Query_tasks
  \/ Query_tasks_rs
  \/ Mutation_addTask
  \/ Mutation_addTask_rs
  \/ Mutation_updateTask
  \/ Mutation_updateTask_rs
  \/ Mutation_removeTask
  \/ Respond

Spec == Init /\ [][Next]_vars

(* Teams: their members and their projects *)
NextTeams ==
  \/ Join
  \/ Join_rs
  \/ Mutation_addProject
  \/ TeamProject_rs
  \/ Mutation_updateProject
  \/ MoveProject_rs
  \/ Mutation_removeProject
  \/ Mutation_removeUser
  \/ Respond

SpecTeams == Init /\ [][NextTeams]_vars

(* Accounts, credentials and sessions *)
NextAccounts ==
  \/ Query_me
  \/ Mutation_login
  \/ Mutation_login_rs
  \/ Mutation_addUser
  \/ Mutation_addUser_rs
  \/ Mutation_updateUser
  \/ Mutation_updateUser_rs
  \/ Mutation_removeUser
  \/ Respond

SpecAccounts == Init /\ [][NextAccounts]_vars

(* Calls made one at a time, each of which succeeds: part_000's addUser  *)
(* (into a team or into none), addProject (the team's lists hold no task,  *)
(* the project is created without one), addTask and updateTask; nothing    *)
(* is removed.                                                             *)
AddUserOk == Join /\ last'.err = ""
AddProjectOk == NewProject /\ last'.err = ""
AddTaskOk == Mutation_addTask /\ last'.err = ""
UpdateTaskOk == Mutation_updateTask /\ last'.err = ""

NextGraph ==
  \/ AddUserOk
  \/ AddProjectOk
  \/ AddTaskOk
  \/ UpdateTaskOk
  \/ Respond

SpecGraph == Init /\ [][NextGraph]_vars

(* Teams as they grow: members join and projects are created for teams;  *)
(* nothing is removed                                                      *)
NextMembers ==
  \/ Join
  \/ Mutation_addProject
  \/ Respond

SpecMembers == Init /\ [][NextMembers]_vars

(* The same, with projects moved between teams by either updateProject *)
NextMoves ==
  \/ Join
  \/ Mutation_addProject
  \/ Mutation_updateProject
  \/ MoveProject_rs
  \/ Respond

SpecMoves == Init /\ [][NextMoves]_vars

(* Removals from a populated graph: members of the first team, its       *)
(* projects, tasks of those projects assigned to users, and the three      *)
(* removals                                                                *)
Member == \E pw \in NewPasswords : addUser(EmailFor(nextUser), pw, 1)
ProjectOfTeam == addProject(1)
AssignedTask ==
  \E projectId \in ProjectIdInputs, assignedUserId \in UserIdInputs \ {0} :
    addTask(projectId, assignedUserId, "Pending") /\ last'.err = ""

NextRemovals ==
  \/ Member
  \/ ProjectOfTeam
  \/ AssignedTask
  \/ Mutation_removeTask
  \/ Mutation_removeProject
  \/ Mutation_removeUser
  \/ Respond

SpecRemovals == Init /\ [][NextRemovals]_vars

----------------------------------------------------------------------------
(* Properties *)

(* C1: after an addTask(projectId, input) that succeeds, the new task's   *)
(* identifier is exactly once in the task list of the project projectId    *)
(* and exactly once in the task list of the user input.assignedUserId.     *)
C1_AddTaskInBothLists ==
  (last.op = "addTask" /\ last.err = "" /\ last.a1 \in DOMAIN projects /\ last.a2 \in DOMAIN users)
    => /\ Count(projects[last.a1].tasks, last.id) = 1
       /\ Count(users[last.a2].tasks, last.id) = 1

(* C2: login returns a user and a credential only when a user with that   *)
(* e-mail is stored and the password matches its stored hash; otherwise    *)
(* the result is the authentication error, with no user and no credential. *)
LoginMatches(u) ==
  /\ users[u].email = last.st
  /\ users[u].password.hashed
  /\ users[u].password.text = last.pw[1]

C2_LoginOnlyOnMatch ==
  last.op = "login" =>
    IF \E u \in DOMAIN users : LoginMatches(u)
    THEN /\ last.err = ""
         /\ last.user \in DOMAIN users /\ LoginMatches(last.user)
         /\ last.token = signToken(last.user)
    ELSE last.err = AuthenticationError /\ last.user = 0 /\ last.token = 0

C2_Witness_WrongPassword ==
  /\ last.op = "login"
  /\ last.err = AuthenticationError
  /\ \E u \in DOMAIN users : users[u].email = last.st /\ users[u].password.hashed
                             /\ users[u].password.text # last.pw[1]

(* C3: an updateTask on a stored task leaves the task's assignee as it    *)
(* was, whether the input names no assignee or another one, and applies    *)
(* the other fields of the input (the status).                             *)
C3_UpdateTaskKeepsAssignee ==
  [][(last'.op = "updateTask" /\ last'.a1 \in DOMAIN tasks)
       => /\ last'.err = ""
          /\ last'.a1 \in DOMAIN tasks'
          /\ tasks'[last'.a1].assignedUser = tasks[last'.a1].assignedUser
          /\ tasks'[last'.a1].taskStatus =
               IF last'.st # "" THEN last'.st ELSE tasks[last'.a1].taskStatus]_vars

C3_Witness_OtherAssigneeSupplied ==
  /\ last.op = "updateTask" /\ last.err = "" /\ last.id \in DOMAIN tasks
  /\ last.a2 \in DOMAIN users
  /\ tasks[last.id].assignedUser \in DOMAIN users
  /\ tasks[last.id].assignedUser # last.a2
  /\ last.st = "Completed" /\ tasks[last.id].taskStatus = "Completed"

(* C4: after an addProject naming a stored team, the new project is in    *)
(* that team's project list and in the project list of every member of     *)
(* the team.                                                               *)
SuppliedTeams == IF last.impl = "part_000" THEN {last.a2} \ {0} ELSE last.ret

C4_AddProjectReachesTeamAndMembers ==
  (last.op = "addProject" /\ last.err = "") =>
    \A t \in SuppliedTeams \cap DOMAIN teams :
      /\ last.id \in Range(teams[t].projects)
      /\ \A u \in Range(teams[t].members) \cap DOMAIN users :
           last.id \in Range(users[u].projects)

(* C5: tasks() without a session user fails with the authentication       *)
(* error itself; with a session user it returns exactly the tasks whose    *)
(* assignedUser is that user.                                              *)
C5_TasksScopedToSession ==
  last.op = "tasks" =>
    IF last.ctx = 0
    THEN last.err = AuthenticationError
    ELSE last.err = "" /\ last.ret = {t \in DOMAIN tasks : tasks[t].assignedUser = last.ctx}

(* C6 as stated: me fails with the authentication error when the context  *)
(* has no session user, and otherwise returns the record of the session's  *)
(* user.                                                                   *)
C6_MeReturnsSessionUser ==
  last.op = "me" =>
    IF last.ctx = 0 THEN last.err = AuthenticationError
    ELSE last.err = "" /\ last.user = last.ctx /\ last.user \in DOMAIN users

(* C6 amended: me fails with the authentication error exactly when the    *)
(* context has no session user; otherwise its result is the record of the  *)
(* session's user while that record is stored, and null once it has been   *)
(* removed: never another user's record.                                   *)
C6_MeReturnsSessionUserOrNull ==
  last.op = "me" =>
    IF last.ctx = 0 THEN last.err = AuthenticationError /\ last.user = 0
    ELSE /\ last.err = ""
         /\ last.user = IF last.ctx \in DOMAIN users THEN last.ctx ELSE 0

C6_Witness_SessionOfSecondUser ==
  /\ last.op = "me" /\ last.err = ""
  /\ last.ctx = 2 /\ last.user = 2 /\ 1 \in DOMAIN users

(* C7: after an addUser naming a stored team succeeds, the new user's     *)
(* team is that team, the team's member list contains the new user, and    *)
(* the result carries the user and a freshly signed credential.            *)
C7_AddUserLinksBothWays ==
  (last.op = "addUser" /\ last.err = "" /\ last.a2 \in DOMAIN teams) =>
    /\ last.id \in DOMAIN users
    /\ users[last.id].team = last.a2
    /\ last.id \in Range(teams[last.a2].members)
    /\ last.user = last.id
    /\ last.token = signToken(last.id)

(* C8: after an updateUser whose input contains a (non-empty) password, the stored *)
(* password of the user is the hash of that password, not the plaintext,   *)
(* so that a login with the new password passes the comparison.            *)
C8_UpdateUserHashesPassword ==
  (last.op = "updateUser" /\ last.pw # <<>> /\ last.pw # <<"">> /\ last.a1 \in DOMAIN users) =>
    /\ users[last.a1].password = bcryptHash(last.pw[1])
    /\ users[last.a1].password # Plain(last.pw[1])
    /\ isCorrectPassword(users[last.a1].password, last.pw[1])

(* C9: the status tally is a total partition of the list: the counts sum  *)
(* to the list length, each record is counted under its own status, and    *)
(* no status with count 0 is in the tally.                                 *)
IsPartitionTally(counts, statuses) ==
  /\ DOMAIN counts = Range(statuses)
  /\ \A s \in DOMAIN counts :
       counts[s] = Cardinality({i \in DOMAIN statuses : statuses[i] = s}) /\ counts[s] > 0
  /\ SumCounts(counts, DOMAIN counts) = Len(statuses)

C9_TallyIsPartition ==
  rendered.done =>
    /\ IsPartitionTally(rendered.projectStatusCounts,
                        [i \in DOMAIN userProjects |-> userProjects[i].projectStatus])
    /\ IsPartitionTally(rendered.taskStatusCounts,
                        [i \in DOMAIN userTasks |-> userTasks[i].taskStatus])
    /\ rendered.totalProjectsCount = Len(userProjects)
    /\ rendered.totalTasksCount = Len(userTasks)

C9_Witness_CompletedPendingPending ==
  /\ rendered.done
  /\ [i \in DOMAIN userProjects |-> userProjects[i].projectStatus]
       = <<"Completed", "Pending", "Pending">>
  /\ rendered.projectStatusCounts = [s \in {"Completed", "Pending"} |->
                                       IF s = "Completed" THEN 1 ELSE 2]
  /\ rendered.totalProjectsCount = 3

(* C10: when no record is due today and none is due after today, the      *)
(* selection is empty and the card reads "No upcoming due date".           *)
DayOfDue(due) == toDateString(parseFormattedDate(due))
NothingUpcoming(list) ==
  \A i \in DOMAIN list : DayOfDue(list[i].dateDue) < toDateString(today)

C10_PastOnlyGivesNoUpcoming ==
  rendered.done =>
    /\ NothingUpcoming(userProjects) =>
         rendered.projectToReturn = 0 /\ rendered.projectDue.text = "No upcoming due date"
    /\ NothingUpcoming(userTasks) =>
         rendered.taskToReturnResult = 0 /\ rendered.taskDue.text = "No upcoming due date"

(* C11: when at least one record of the list is due on the calendar day   *)
(* of the render, the selected record is the first record of the list      *)
(* that is due that day, wherever it sits among past and future records,   *)
(* and the card reads "TODAY".                                             *)
IsFirstDueToday(list, selected) ==
  /\ selected \in DOMAIN list
  /\ DayOfDue(list[selected].dateDue) = toDateString(today)
  /\ \A j \in 1..(selected - 1) : DayOfDue(list[j].dateDue) # toDateString(today)

SomeDueToday(list) ==
  \E i \in DOMAIN list : DayOfDue(list[i].dateDue) = toDateString(today)

C11_DueTodayIsSelected ==
  rendered.done =>
    /\ SomeDueToday(userProjects) =>
         /\ IsFirstDueToday(userProjects, rendered.projectToReturn)
         /\ rendered.projectDue.text = "TODAY"
    /\ SomeDueToday(userTasks) =>
         /\ IsFirstDueToday(userTasks, rendered.taskToReturnResult)
         /\ rendered.taskDue.text = "TODAY"

C11_Witness_TodayAfterFutureTwice ==
  /\ rendered.done
  /\ today = NewDate(2026, 10, 4) + 12 * 60
  /\ Dues(userProjects) = <<<<"Nov", 11, 2026>>, <<"Nov", 4, 2026>>, <<"Nov", 4, 2026>>>>
  /\ rendered.projectToReturn = 2
  /\ rendered.projectDue.text = "TODAY"

(* C12: when no record is due today and some record is due after today,   *)
(* the selected record is due after today, no record due after today is    *)
(* due earlier, and no earlier record of the list is due the same day;     *)
(* the card shows that date.                                               *)
IsDueLater(record) == parseFormattedDate(record.dateDue) > today

IsFirstEarliestLater(list, selected) ==
  /\ selected \in DOMAIN list
  /\ IsDueLater(list[selected])
  /\ \A j \in DOMAIN list :
       IsDueLater(list[j]) =>
         parseFormattedDate(list[selected].dateDue) <= parseFormattedDate(list[j].dateDue)
  /\ \A j \in 1..(selected - 1) : list[j].dateDue # list[selected].dateDue

LaterButNotToday(list) ==
  /\ ~SomeDueToday(list)
  /\ \E i \in DOMAIN list : IsDueLater(list[i])

C12_EarliestLaterIsSelected ==
  rendered.done =>
    /\ LaterButNotToday(userProjects) =>
         /\ IsFirstEarliestLater(userProjects, rendered.projectToReturn)
         /\ rendered.projectDue =
              [text |-> "date", day |-> DayOfDue(userProjects[rendered.projectToReturn].dateDue)]
    /\ LaterButNotToday(userTasks) =>
         /\ IsFirstEarliestLater(userTasks, rendered.taskToReturnResult)
         /\ rendered.taskDue =
              [text |-> "date", day |-> DayOfDue(userTasks[rendered.taskToReturnResult].dateDue)]

C12_Witness_PastThenTiedLater ==
  /\ rendered.done
  /\ today = NewDate(2026, 10, 4) + 12 * 60
  /\ Dues(userProjects) = <<<<"Oct", 1, 2026>>, <<"Nov", 11, 2026>>, <<"Nov", 11, 2026>>>>
  /\ rendered.projectToReturn = 2

(* C13: the incomplete-task count is the number of tasks less the number  *)
(* of tasks whose status is "Completed", and the incomplete and completed  *)
(* counts add up to the number of tasks.                                   *)
CompletedTasks == {i \in DOMAIN userTasks : userTasks[i].taskStatus = "Completed"}

C13_IncompleteIsTotalLessCompleted ==
  rendered.done =>
    /\ rendered.incompleteTasksCount = Len(userTasks) - Cardinality(CompletedTasks)
    /\ rendered.completedTasksCount = Cardinality(CompletedTasks)
    /\ rendered.incompleteTasksCount + rendered.completedTasksCount = rendered.totalTasksCount

C13_Witness_OneCompletedOneNot ==
  /\ rendered.done
  /\ Len(userTasks) = 2
  /\ Cardinality(CompletedTasks) = 1
  /\ rendered.incompleteTasksCount = 1
  /\ rendered.completedTasksCount = 1

(* C15: an addTask (part_000) that fails has undone nothing.  When the    *)
(* project is not stored, the task it created is stored and is in no       *)
(* project's task list; when the project is stored and the assigned user   *)
(* is not, the task is stored and is in the project's task list and in no  *)
(* user's task list.  Either way the caller gets the operation-failure     *)
(* error.                                                                  *)
C15_AddTaskNoRollback ==
  [][(last'.op = "addTask" /\ last'.impl = "part_000") =>
       /\ last'.a1 \notin DOMAIN projects =>
            /\ last'.err = "Failed to create task: Project not found"
            /\ last'.id \in DOMAIN tasks' \ DOMAIN tasks
            /\ \A p \in DOMAIN projects' : last'.id \notin Range(projects'[p].tasks)
            /\ \A u \in DOMAIN users' : last'.id \notin Range(users'[u].tasks)
       /\ (last'.a1 \in DOMAIN projects /\ last'.a2 \notin DOMAIN users) =>
            /\ last'.err = "Failed to create task: Assigned user not found"
            /\ last'.id \in DOMAIN tasks' \ DOMAIN tasks
            /\ Count(projects'[last'.a1].tasks, last'.id) = 1
            /\ \A u \in DOMAIN users' : last'.id \notin Range(users'[u].tasks)]_vars

C15_Witness_UnknownAssignee ==
  /\ last.op = "addTask" /\ last.impl = "part_000"
  /\ last.err = "Failed to create task: Assigned user not found"
  /\ DOMAIN users # {} /\ last.a2 \notin DOMAIN users /\ last.a2 # 0
  /\ last.id \in DOMAIN tasks
  /\ last.a1 \in DOMAIN projects /\ last.id \in Range(projects[last.a1].tasks)
  /\ \A u \in DOMAIN users : last.id \notin Range(users[u].tasks)

(* C18: after any sequence of successful addUser, addProject, addTask and *)
(* updateTask calls made one at a time, a task is in a user's task list    *)
(* exactly when that user is the task's stored assignedUser, and every     *)
(* task is in the task list of exactly one project.                        *)
ProjectsListing(t) == {p \in DOMAIN projects : t \in Range(projects[p].tasks)}

C16_AddProjectUnknownTeam ==
  [][(last'.op = "addProject" /\ last'.impl = "part_000"
        /\ last'.a2 # 0 /\ last'.a2 \notin DOMAIN teams) =>
       /\ last'.err = "Failed to create project: Team not found"
       /\ teams' = teams
       /\ users' = users
       /\ last'.id \in DOMAIN projects' \ DOMAIN projects
       /\ projects'[last'.id].team = <<last'.a2>>]_vars

C16_Witness_ProjectOfUnknownTeamStored ==
  /\ last.op = "addProject" /\ last.impl = "part_000"
  /\ last.err = "Failed to create project: Team not found"
  /\ last.id \in DOMAIN projects
  /\ projects[last.id].team = <<last.a2>> /\ last.a2 \notin DOMAIN teams
  /\ \E u \in DOMAIN users : users[u].team \in DOMAIN teams /\ users[u].projects = <<>>

(* C19 as stated: an updateProject that names a team writes the Project   *)
(* record alone: the project's stored team becomes the supplied            *)
(* identifier(s), no teamId field is stored, and every team's and every    *)
(* user's project list is as before.                                       *)
NamesTeam(r) == IF r.impl = "part_000" THEN r.a2 # 0 ELSE r.ret # {}

C19_UpdateProjectWritesProjectOnly ==
  [][(last'.op = "updateProject" /\ last'.err = "" /\ last'.id # 0 /\ NamesTeam(last')) =>
       /\ teams' = teams
       /\ users' = users
       /\ DOMAIN projects' = DOMAIN projects
       /\ "teamId" \notin DOMAIN projects'[last'.id]
       /\ IF last'.impl = "part_000"
          THEN projects'[last'.id].team = <<last'.a2>>
          ELSE projects'[last'.id].teams = SetToSeq(last'.ret)]_vars

(* C19 amended: as stated, except that resolvers.js stores, of the        *)
(* supplied identifiers, those that name a stored team (part_000 stores    *)
(* the supplied identifier whether or not a team has it).                  *)
C19_UpdateProjectStoresKnownTeams ==
  [][(last'.op = "updateProject" /\ last'.err = "" /\ last'.id # 0 /\ NamesTeam(last')) =>
       /\ teams' = teams
       /\ users' = users
       /\ DOMAIN projects' = DOMAIN projects
       /\ \A p \in DOMAIN projects \ {last'.id} : projects'[p] = projects[p]
       /\ "teamId" \notin DOMAIN projects'[last'.id]
       /\ IF last'.impl = "part_000"
          THEN projects'[last'.id].team = <<last'.a2>>
          ELSE projects'[last'.id].teams = SetToSeq(last'.ret \cap DOMAIN teams)]_vars

C19_Witness_MovedAwayFromItsTeam ==
  /\ last.op = "updateProject" /\ last.impl = "part_000" /\ last.err = ""
  /\ last.id \in DOMAIN projects
  /\ projects[last.id].team = <<last.a2>>
  /\ \E t \in DOMAIN teams :
       /\ t # last.a2
       /\ last.id \in Range(teams[t].projects)
       /\ \E u \in Range(teams[t].members) : last.id \in Range(users[u].projects)

(* C20: addProject (part_000) gives the project to the users who are in   *)
(* the team's member list when it is called and to no other user; addUser  *)
(* into a team gives the new user none of the team's projects and leaves   *)
(* the team's project list as it was.                                      *)
C20_LateMemberHasNoProjects ==
  [][/\ (last'.op = "addProject" /\ last'.impl = "part_000" /\ last'.a2 \in DOMAIN teams) =>
          /\ DOMAIN users' = DOMAIN users
          /\ \A u \in DOMAIN users :
               users'[u].projects =
                 IF u \in Range(teams[last'.a2].members)
                 THEN Append(users[u].projects, last'.id)
                 ELSE users[u].projects
          /\ teams'[last'.a2].projects = Append(teams[last'.a2].projects, last'.id)
     /\ (last'.op = "addUser" /\ last'.impl = "part_000" /\ last'.err = ""
           /\ last'.a2 \in DOMAIN teams) =>
          /\ last'.id \in DOMAIN users' \ DOMAIN users
          /\ users'[last'.id].projects = <<>>
          /\ last'.id \in Range(teams'[last'.a2].members)
          /\ teams'[last'.a2].projects = teams[last'.a2].projects]_vars

C20_Witness_JoinedAfterTheProject ==
  /\ last.op = "addUser" /\ last.impl = "part_000" /\ last.err = ""
  /\ last.a2 \in DOMAIN teams
  /\ teams[last.a2].projects # <<>>
  /\ last.id \in Range(teams[last.a2].members)
  /\ users[last.id].projects = <<>>
  /\ \E u \in Range(teams[last.a2].members) : users[u].projects = teams[last.a2].projects

(* C17: removeTask, removeProject and removeUser delete the addressed     *)
(* record and write nothing else: the lists and fields of every other      *)
(* record, those that refer to the deleted record included, are as before. *)
C17_RemovesDoNotCascade ==
  [][/\ last'.op = "removeTask" =>
          /\ tasks' = Remove(tasks, last'.a1)
          /\ users' = users /\ projects' = projects /\ teams' = teams
     /\ last'.op = "removeProject" =>
          /\ projects' = Remove(projects, last'.a1)
          /\ tasks' = tasks /\ users' = users /\ teams' = teams
     /\ last'.op = "removeUser" =>
          /\ users' = Remove(users, last'.a1)
          /\ tasks' = tasks /\ projects' = projects /\ teams' = teams]_vars

(* a task, a user and then the project have been removed: the removed     *)
(* task is still in its assignee's list, the removed user still a member   *)
(* of the team and the assignee of a stored task, the removed project      *)
(* still in the team's and a user's project list                           *)
C17_Witness_DanglingAfterEachRemoval ==
  /\ last.op = "removeProject" /\ last.a1 \notin DOMAIN projects
  /\ \E t \in DOMAIN teams :
       /\ last.a1 \in Range(teams[t].projects)
       /\ \E u \in Range(teams[t].members) : u \notin DOMAIN users
       /\ \E u \in Range(teams[t].members) \cap DOMAIN users :
            /\ last.a1 \in Range(users[u].projects)
            /\ \E k \in Range(users[u].tasks) : k \notin DOMAIN tasks
  /\ \E k \in DOMAIN tasks : tasks[k].assignedUser # 0 /\ tasks[k].assignedUser \notin DOMAIN users
====
